---------------------------- MODULE Spec2Model ----------------------------
(***************************************************************************)
(* The audio delivery pipeline of the texas player.                        *)
(*                                                                         *)
(*   AudioDecoder  (decoder thread, frame queue)                           *)
(*   AudioPlayer   (controller operations, conversion thread               *)
(*                  decodingLoop/processDecodedFrame, playback queue,      *)
(*                  device callback fillAudioBuffer)                       *)
(*                                                                         *)
(* A frame is modelled by its presentation timestamp: the index of the     *)
(* packet it was decoded from.  A chunk is a record [ts, n]: the timestamp *)
(* of the frame it was converted from and the number of bytes still in it. *)
(*                                                                         *)
(* Sections of code that run with a mutex held are one action each.  A     *)
(* thread blocked in condition_variable::wait sits at a "wait" position    *)
(* with the mutex released, and leaves it when notified (or spuriously).   *)
(* The controller operations are issued by one thread (the command loop),  *)
(* one at a time; stop(), seek() and loadFile() take several steps, the    *)
(* other threads run in between.                                           *)
(*                                                                         *)
(* The flags isDecodingThreadRunning and isDecoding and the field          *)
(* currentPosition are read and written by several threads without a       *)
(* lock; every read here sees the last value written (each access is one   *)
(* step, in some order).                                                   *)
(*                                                                         *)
(* Spec is the player with its threads.  QSpec is the frame-queue          *)
(* interface of AudioDecoder (pushFrame, getAudioFrame, stop) with client  *)
(* threads of its own: there the gap between a waiter's predicate check    *)
(* and its block is a position of its own, because stop() notifies without *)
(* the mutex.  CbSpec is setVolume and the device callback with the bytes  *)
(* it writes to the output buffer.  DSpec is the decoder thread with the   *)
(* frames the codec holds back, on a decoder used on its own.              *)
(* MSpec is the playback queue with queueMutex made explicit.              *)
(***************************************************************************)
EXTENDS Integers, Sequences, FiniteSets, TLC

\* ------------------------------------------------------------------ bounds
\* Capacity of the playback queue (50 in the source), scaled down.
MAX_QUEUE_SIZE == 2
\* Low-water mark of the playback queue (10 in the source), scaled down.
LOW_WATER_MARK == 1
\* config.maxQueueSize of the frame queue (50 in AudioPlayer()), scaled down.
maxQueueSize == 2
\* The frame queue has no bound in decodeLoop: the model stops decoding at this length.
FrameCap == 3
\* Number of packets of the source; timestamps are 0 .. StreamLen-1.
StreamLen == 2
\* Largest chunk, in bytes, a conversion yields.
MaxChunkBytes == 2
\* Largest buffer length, in bytes, the device asks the callback to fill.
MaxLen == 2
\* bufferedSize is a size_t: its arithmetic wraps at 2^SizeBits.
SizeBits == 2
\* Number of client threads that call pushFrame.
NumPushers == 2
\* Number of frames the clients of the frame queue offer in a run.
MaxFrames == 4
\* Frames the codec may hold back before it hands them out.
MaxCodecDelay == 1

\* SDL_MIX_MAXVOLUME, the full volume of SDL_MixAudioFormat
SDL_MIX_MAXVOLUME == 128

SizeMod == 2 ^ SizeBits
\* the null frame pointer of decodingLoop
NoFrame == -1
\* seekArg when no successful seek is on record: the same marker
NoSeek == NoFrame

States == {"STOPPED", "PLAYING", "PAUSED"}

VARIABLES
  \* AudioPlayer
  playerState, isPlaying, isPaused, isDecodingThreadRunning,
  audioQueue, currentPosition, underrun, bufferedSize, swrContext,
  \* the output device: opened by init(), paused by SDL_PauseAudioDevice(dev, 1)
  deviceOpen, devicePaused,
  \* conversion thread (decodingThread): position, frame held, bytes converted
  cpc, cframe, cbytes,
  \* dataCondition: a notify_one has reached the waiting conversion thread
  dataNotified,
  \* AudioDecoder
  opened, isDecoding, dpc, frameQueue, streamPos,
  \* the controller: operation in progress; seek's argument (kept after a
  \* successful seek until the next operation) and decoder->seek's result;
  \* whether stop() was called by loadFile(); the operation that just returned
  ctl, seekArg, seekOk, inLoad, ret,
  \* AudioDecoderConfig::dropFramesWhenFull
  dropFramesWhenFull,
  \* the threads that call pushFrame: position, frame offered, last result,
  \* and whether the call waited for space
  ppc, pframe, pres, pwaited,
  \* the thread that calls getAudioFrame: position, whether its timeout is
  \* >= 0, last result
  gpc, gtimed, gres,
  \* the thread inside AudioDecoder::stop
  spc,
  \* history: frames created, frames inserted by pushFrame, frames handed out
  made, pushed, popped,
  \* AudioPlayer::volume, and the device's buffer as the last callback left it
  volume, stream,
  \* the frames the codec holds between avcodec_send_packet and
  \* avcodec_receive_frame
  codecHeld,
  \* the thread that holds AudioPlayer::queueMutex, and the position of the
  \* device's thread inside fillAudioBuffer
  queueMutex, cbpc

playerVars == <<playerState, isPlaying, isPaused, isDecodingThreadRunning,
                audioQueue, currentPosition, underrun, bufferedSize, swrContext,
                deviceOpen, devicePaused>>
convVars == <<cpc, cframe, cbytes, dataNotified>>
decVars == <<opened, isDecoding, dpc, frameQueue, streamPos>>
ctlVars == <<ctl, seekArg, seekOk, inLoad>>
\* every variable the program owns (ret only records which operation returned)
progVars == <<playerVars, convVars, decVars>>
\* the clients of the frame queue of a decoder used on its own
qVars == <<dropFramesWhenFull, ppc, pframe, pres, pwaited, gpc, gtimed, gres,
           spc, made, pushed, popped>>
\* the volume and the output buffer, followed under CbSpec
outVars == <<volume, stream>>
\* the codec's buffer, followed under DSpec
codecVars == <<codecHeld>>
\* the owner of queueMutex and the callback's position, followed under MSpec
lockVars == <<queueMutex, cbpc>>
vars == <<playerVars, convVars, decVars, ctlVars, ret, qVars, outVars,
          codecVars, lockVars>>

Pushers == 1..NumPushers

Init ==
  /\ playerState = "STOPPED" /\ isPlaying = FALSE /\ isPaused = FALSE
  /\ isDecodingThreadRunning = FALSE
  /\ audioQueue = <<>> /\ currentPosition = 0 /\ underrun = FALSE
  /\ bufferedSize = 0 /\ swrContext = FALSE
  /\ deviceOpen = FALSE /\ devicePaused = TRUE
  /\ cpc = "none" /\ cframe = NoFrame /\ cbytes = 0 /\ dataNotified = FALSE
  /\ opened = FALSE /\ isDecoding = FALSE /\ dpc = "none"
  /\ frameQueue = <<>> /\ streamPos = 0
  /\ ctl = "idle" /\ seekArg = NoSeek /\ seekOk = FALSE /\ inLoad = FALSE
  /\ ret = "none"
  /\ dropFramesWhenFull = FALSE
  /\ ppc = [p \in Pushers |-> "idle"] /\ pframe = [p \in Pushers |-> NoFrame]
  /\ pres = [p \in Pushers |-> "none"] /\ pwaited = [p \in Pushers |-> FALSE]
  /\ gpc = "idle" /\ gtimed = FALSE /\ gres = "none"
  /\ spc = "idle"
  /\ made = 0 /\ pushed = <<>> /\ popped = <<>>
  /\ volume = SDL_MIX_MAXVOLUME /\ stream = <<>>
  /\ codecHeld = <<>> /\ queueMutex = "free" /\ cbpc = "idle"


\* ------------------------------------------------------------ helpers
Min(a, b) == IF a < b THEN a ELSE b

RECURSIVE TotalBytes(_)
\* the bytes held in a queue of chunks
TotalBytes(q) == IF q = <<>> THEN 0 ELSE Head(q).n + TotalBytes(Tail(q))

\* a drain that pops the front chunk whole, read to its end or not
DrainWholeChunks(q, len) ==
  IF len = 0 \/ q = <<>> THEN q ELSE Tail(q)

\* a drain that takes its bytes from the newest chunk
DrainFromBack(q, len) ==
  IF len = 0 \/ q = <<>> THEN q ELSE SubSeq(q, 1, Len(q) - 1)

RECURSIVE Drain(_, _)
\* fillAudioBuffer's loop: take len bytes from the front of the queue; a chunk
\* drained completely is popped, a chunk drained in part keeps its remainder
Drain(q, len) ==
  IF len = 0 \/ q = <<>> THEN q
  ELSE LET copyLen == Min(len, Head(q).n)
       IN IF copyLen < Head(q).n
            THEN <<[Head(q) EXCEPT !.n = Head(q).n - copyLen]>> \o Tail(q)
            ELSE Drain(Tail(q), len - copyLen)

\* updateBufferSize: size_t arithmetic
AddSize(cur, delta) == (cur + delta) % SizeMod

\* SDL_PauseAudioDevice(audioDevice, p): no effect on an invalid device
PauseDevice(p) == IF deviceOpen THEN p ELSE devicePaused

\* ------------------------------------------------- decoder thread
\* AudioDecoder::decodeLoop, one iteration: the loop test, av_read_frame,
\* avcodec_send_packet/avcodec_receive_frame and the push of the clone.
DecodeStep ==
  /\ dpc = "run"
  /\ \/ /\ ~isDecoding                       \* loop test fails
        /\ dpc' = "done"
        /\ UNCHANGED <<frameQueue, streamPos>>
     \/ /\ isDecoding                        \* AVERROR_EOF (or nothing to read): break
        /\ (~opened \/ streamPos = StreamLen)
        /\ dpc' = "done"
        /\ UNCHANGED <<frameQueue, streamPos>>
     \/ /\ isDecoding /\ opened /\ streamPos < StreamLen
        /\ \/ /\ dpc' = "done"               \* read error: break
              /\ UNCHANGED <<frameQueue, streamPos>>
           \/ /\ streamPos' = streamPos + 1  \* packet yields no frame
              /\ UNCHANGED <<dpc, frameQueue>>
           \/ /\ Len(frameQueue) < FrameCap  \* frame decoded, clone pushed
              /\ frameQueue' = Append(frameQueue, streamPos)
              /\ streamPos' = streamPos + 1
              /\ UNCHANGED dpc
  /\ UNCHANGED <<opened, isDecoding, playerVars, convVars, ctlVars>>

\* ---------------------------------------------- conversion thread
\* a test for space that lets a full queue through
QueueHasSpaceOffByOne == Len(audioQueue) <= MAX_QUEUE_SIZE

\* the predicate of dataCondition.wait in processDecodedFrame
QueueHasSpace == Len(audioQueue) < MAX_QUEUE_SIZE

\* audioQueue.push(data); updateBufferSize(actualBufferSize); return to the loop
PushChunk ==
  /\ audioQueue' = Append(audioQueue, [ts |-> cframe, n |-> cbytes])
  /\ bufferedSize' = AddSize(bufferedSize, cbytes)
  /\ cpc' = "loop" /\ cframe' = NoFrame /\ cbytes' = 0

\* processDecodedFrame returns without a push; decodingLoop frees the frame
DropChunk ==
  /\ cpc' = "loop" /\ cframe' = NoFrame /\ cbytes' = 0
  /\ UNCHANGED <<audioQueue, bufferedSize>>

\* AudioPlayer::decodingLoop: the loop test and getAudioFrame(&frame, 100).
\* The timed wait returns with or without a frame; without one the loop
\* comes back here unchanged.
ConvLoop ==
  /\ cpc = "loop"
  /\ \/ /\ ~isDecodingThreadRunning
        /\ cpc' = "done"
        /\ UNCHANGED <<cframe, frameQueue>>
     \/ /\ isDecodingThreadRunning
        /\ frameQueue # <<>>
        /\ cframe' = Head(frameQueue)
        /\ frameQueue' = Tail(frameQueue)
        /\ cpc' = "conv"
  /\ UNCHANGED <<cbytes, dataNotified, playerVars, opened, isDecoding, dpc,
                 streamPos, ctlVars>>

\* a failed conversion that ends the conversion thread
SkipFrameEndsThread ==
  /\ cpc' = "done" /\ cframe' = NoFrame
  /\ UNCHANGED <<cbytes, currentPosition>>

\* processDecodedFrame returns early; decodingLoop frees the frame and tests
\* its loop condition again
SkipFrame ==
  /\ cpc' = "loop" /\ cframe' = NoFrame
  /\ UNCHANGED <<cbytes, currentPosition>>

\* processDecodedFrame up to the lock: resampler check, conversion, position
ConvProcess ==
  /\ cpc = "conv"
  /\ \/ /\ ~swrContext                       \* "Resampler not initialized"
        /\ SkipFrame
     \/ /\ swrContext                        \* out_samples <= 0 or swr_convert < 0
        /\ SkipFrame
     \/ /\ swrContext
        /\ \E n \in 1..MaxChunkBytes :
             /\ cbytes' = n
             /\ currentPosition' = cframe
             /\ cpc' = "enq"
             /\ UNCHANGED cframe
  /\ UNCHANGED <<playerState, isPlaying, isPaused, isDecodingThreadRunning,
                 audioQueue, underrun, bufferedSize, swrContext, deviceOpen,
                 devicePaused, dataNotified, decVars, ctlVars>>

\* processDecodedFrame with queueMutex taken: the test for a full queue, the
\* first evaluation of the wait predicate, and the push
ConvEnqueue ==
  /\ cpc = "enq"
  /\ IF QueueHasSpace THEN PushChunk
     ELSE IF ~isDecodingThreadRunning THEN DropChunk
     ELSE /\ cpc' = "wait"
          /\ UNCHANGED <<cframe, cbytes, audioQueue, bufferedSize>>
  /\ UNCHANGED <<playerState, isPlaying, isPaused, isDecodingThreadRunning,
                 currentPosition, underrun, swrContext, deviceOpen,
                 devicePaused, dataNotified, decVars, ctlVars>>

\* the waiting thread re-evaluates its predicate with the mutex taken
Reevaluate ==
  IF QueueHasSpace \/ ~isDecodingThreadRunning
    THEN IF ~isDecodingThreadRunning THEN DropChunk ELSE PushChunk
    ELSE UNCHANGED <<cpc, cframe, cbytes, audioQueue, bufferedSize>>

\* dataCondition.wait returns from a notify_one
ConvWake ==
  /\ cpc = "wait" /\ dataNotified
  /\ dataNotified' = FALSE
  /\ Reevaluate
  /\ UNCHANGED <<playerState, isPlaying, isPaused, isDecodingThreadRunning,
                 currentPosition, underrun, swrContext, deviceOpen,
                 devicePaused, decVars, ctlVars>>

\* a spurious wakeup of dataCondition.wait (allowed, never guaranteed)
ConvSpuriousWake ==
  /\ cpc = "wait" /\ ~dataNotified
  /\ QueueHasSpace \/ ~isDecodingThreadRunning
  /\ Reevaluate
  /\ UNCHANGED <<playerState, isPlaying, isPaused, isDecodingThreadRunning,
                 currentPosition, underrun, swrContext, deviceOpen,
                 devicePaused, dataNotified, decVars, ctlVars>>

\* ------------------------------------------------ device callback
\* dataCondition.notify_one(): reaches the conversion thread if it waits
Notify == IF cpc = "wait" THEN TRUE ELSE dataNotified

\* AudioPlayer::fillAudioBuffer(stream, len), invoked by the device while it
\* is not paused
FillAudioBuffer(len) ==
  /\ deviceOpen /\ ~devicePaused
  /\ IF audioQueue = <<>>
       THEN /\ underrun' = TRUE
            /\ UNCHANGED <<audioQueue, bufferedSize, dataNotified>>
       ELSE /\ audioQueue' = Drain(audioQueue, len)
            /\ bufferedSize' =
                 AddSize(bufferedSize, SizeMod - Min(len, TotalBytes(audioQueue)))
            /\ dataNotified' =
                 IF Len(audioQueue') < LOW_WATER_MARK THEN Notify ELSE dataNotified
            /\ underrun' = FALSE
  /\ UNCHANGED <<playerState, isPlaying, isPaused, isDecodingThreadRunning,
                 currentPosition, swrContext, deviceOpen, devicePaused,
                 cpc, cframe, cbytes, decVars, ctlVars>>

AudioCallback == \E len \in 1..MaxLen : FillAudioBuffer(len)


\* ---------------------------------------------------- controller
SeekTargets == 0 .. StreamLen - 1

\* a resume that leaves the device muted
ResumeBodyMuted == devicePaused' = devicePaused

\* AudioPlayer::resume, the first statement of its body:
\* SDL_PauseAudioDevice(audioDevice, 0).  The callback may run from here on,
\* before resume() has stored the new state.
ResumeBody == devicePaused' = PauseDevice(FALSE)

\* AudioPlayer::play (with AudioDecoder::start); in PAUSED it calls resume()
Play ==
  /\ ctl = "idle"
  /\ IF playerState = "STOPPED"
       THEN /\ isPlaying' = TRUE
            /\ playerState' = "PLAYING"
            /\ isDecodingThreadRunning' = TRUE
            /\ cpc' = "loop"
            /\ devicePaused' = PauseDevice(FALSE)
            /\ IF ~isDecoding
                 THEN isDecoding' = TRUE /\ dpc' = "run"
                 ELSE UNCHANGED <<isDecoding, dpc>>
            /\ ctl' = "idle" /\ ret' = "play"
       ELSE IF playerState = "PAUSED"
         THEN /\ ResumeBody
              /\ ctl' = "play_set" /\ ret' = "none"
              /\ UNCHANGED <<isPlaying, playerState, isDecodingThreadRunning, cpc,
                             isDecoding, dpc>>
         ELSE /\ ctl' = "idle" /\ ret' = "play"
              /\ UNCHANGED <<isPlaying, playerState, isDecodingThreadRunning, cpc,
                             devicePaused, isDecoding, dpc>>
  /\ seekArg' = NoSeek
  /\ UNCHANGED <<isPaused, audioQueue, currentPosition, underrun, bufferedSize,
                 swrContext, deviceOpen, cframe, cbytes, dataNotified, opened,
                 frameQueue, streamPos, seekOk, inLoad>>
  /\ UNCHANGED <<qVars, outVars, codecVars, lockVars>>

\* a pause that changes the state and leaves the device playing
PauseBodyUnmuted ==
  /\ devicePaused' = devicePaused
  /\ playerState' = "PAUSED"
  /\ isPaused' = TRUE

\* AudioPlayer::pause, the body of its if
PauseBody ==
  /\ devicePaused' = PauseDevice(TRUE)
  /\ playerState' = "PAUSED"
  /\ isPaused' = TRUE

\* AudioPlayer::pause
Pause ==
  /\ ctl = "idle"
  /\ IF playerState = "PLAYING"
       THEN PauseBody
       ELSE UNCHANGED <<devicePaused, playerState, isPaused>>
  /\ ret' = "pause"
  /\ seekArg' = NoSeek
  /\ UNCHANGED <<isPlaying, isDecodingThreadRunning, audioQueue, currentPosition,
                 underrun, bufferedSize, swrContext, deviceOpen, convVars,
                 decVars, ctl, seekOk, inLoad>>
  /\ UNCHANGED <<qVars, outVars, codecVars, lockVars>>

\* AudioPlayer::resume called by the user
Resume ==
  /\ ctl = "idle"
  /\ IF playerState = "PAUSED"
       THEN /\ ResumeBody
            /\ ctl' = "resume_set" /\ ret' = "none"
       ELSE /\ UNCHANGED devicePaused
            /\ ctl' = "idle" /\ ret' = "resume"
  /\ seekArg' = NoSeek
  /\ UNCHANGED <<playerState, isPaused, isPlaying, isDecodingThreadRunning,
                 audioQueue, currentPosition, underrun, bufferedSize, swrContext,
                 deviceOpen, convVars, decVars, seekOk, inLoad>>
  /\ UNCHANGED <<qVars, outVars, codecVars, lockVars>>

\* AudioPlayer::resume, the rest of its body: playerState = PLAYING,
\* isPaused = false; resume() returns (and play(), if it was the caller)
ResumeSet ==
  /\ ctl \in {"resume_set", "play_set"}
  /\ playerState' = "PLAYING"
  /\ isPaused' = FALSE
  /\ ctl' = "idle"
  /\ ret' = IF ctl = "play_set" THEN "play" ELSE "resume"
  /\ UNCHANGED <<isPlaying, isDecodingThreadRunning, audioQueue, currentPosition,
                 underrun, bufferedSize, swrContext, deviceOpen, devicePaused,
                 convVars, decVars, seekArg, seekOk, inLoad>>
  /\ UNCHANGED <<qVars, outVars, codecVars, lockVars>>

\* a stop() that runs its body in every state
StopNeededAlways == TRUE

\* a stop() that never runs its body
StopNeededNever == FALSE

\* the test that opens AudioPlayer::stop
StopNeeded == playerState # "STOPPED"

\* stop() entered by the caller named by load (TRUE: loadFile): in STOPPED it
\* returns at once, otherwise it clears isDecodingThreadRunning and goes on
\* to join the conversion thread
StopEnter(load) ==
  /\ ctl = "idle"
  /\ inLoad' = load
  /\ seekArg' = NoSeek /\ seekOk' = FALSE
  /\ IF StopNeeded
       THEN /\ isDecodingThreadRunning' = FALSE
            /\ ctl' = "stop_join"
            /\ ret' = "none"
       ELSE /\ UNCHANGED isDecodingThreadRunning
            /\ ctl' = IF load THEN "load_open" ELSE "idle"
            /\ ret' = IF load THEN "none" ELSE "stop"
  /\ UNCHANGED <<playerState, isPlaying, isPaused, audioQueue, currentPosition,
                 underrun, bufferedSize, swrContext, deviceOpen, devicePaused,
                 convVars, decVars>>
  /\ UNCHANGED <<qVars, outVars, codecVars, lockVars>>

\* AudioPlayer::stop called by the user
StopBegin == StopEnter(FALSE)

\* decodingThread.join() returns (or the thread is not joinable); the device
\* is paused; AudioDecoder::stop clears isDecoding and notifies, and goes on
\* to join the decoder thread
StopJoin ==
  /\ ctl = "stop_join"
  /\ cpc \in {"none", "done"}
  /\ cpc' = "none"
  /\ devicePaused' = PauseDevice(TRUE)
  /\ isDecoding' = FALSE
  /\ ctl' = "stop_djoin"
  /\ ret' = "none"
  /\ UNCHANGED <<playerState, isPlaying, isPaused, isDecodingThreadRunning,
                 audioQueue, currentPosition, underrun, bufferedSize, swrContext,
                 deviceOpen, cframe, cbytes, dataNotified, opened, dpc,
                 frameQueue, streamPos, seekArg, seekOk, inLoad>>
  /\ UNCHANGED <<qVars, outVars, codecVars, lockVars>>

\* decoderThread.join() returns (or the thread is not joinable); the
\* resampler is freed, the playback queue swapped out and the state reset;
\* stop() returns
StopFinish ==
  /\ ctl = "stop_djoin"
  /\ dpc \in {"none", "done"}
  /\ dpc' = "none"
  /\ swrContext' = FALSE
  /\ audioQueue' = <<>>
  /\ playerState' = "STOPPED"
  /\ isPlaying' = FALSE
  /\ isPaused' = FALSE
  /\ currentPosition' = 0
  /\ ctl' = IF inLoad THEN "load_open" ELSE "idle"
  /\ ret' = IF inLoad THEN "none" ELSE "stop"
  /\ UNCHANGED <<isDecodingThreadRunning, underrun, bufferedSize, deviceOpen,
                 devicePaused, convVars, opened, isDecoding, frameQueue,
                 streamPos, seekArg, seekOk, inLoad>>
  /\ UNCHANGED <<qVars, outVars, codecVars, lockVars>>

\* AudioPlayer::loadFile begins with stop()
LoadBegin == StopEnter(TRUE)

\* loadFile after stop(): AudioDecoder::open, init (the device) and
\* initResampler, each of which may fail
LoadOpen ==
  /\ ctl = "load_open"
  /\ \/ /\ opened' = TRUE /\ streamPos' = 0  \* all three succeed
        /\ deviceOpen' = TRUE /\ devicePaused' = TRUE
        /\ swrContext' = TRUE
        /\ ret' = "load_ok"
     \/ /\ opened' = FALSE                   \* open fails
        /\ UNCHANGED <<streamPos, deviceOpen, devicePaused, swrContext>>
        /\ ret' = "load_fail"
     \/ /\ opened' = TRUE /\ streamPos' = 0  \* SDL_OpenAudioDevice fails
        /\ deviceOpen' = FALSE
        /\ UNCHANGED <<devicePaused, swrContext>>
        /\ ret' = "load_fail"
     \/ /\ opened' = TRUE /\ streamPos' = 0  \* initResampler fails
        /\ deviceOpen' = TRUE /\ devicePaused' = TRUE
        /\ swrContext' = FALSE
        /\ ret' = "load_fail"
  /\ ctl' = "idle" /\ inLoad' = FALSE
  /\ UNCHANGED <<playerState, isPlaying, isPaused, isDecodingThreadRunning,
                 audioQueue, currentPosition, underrun, bufferedSize, convVars,
                 isDecoding, dpc, frameQueue, seekArg, seekOk>>
  /\ UNCHANGED <<qVars, outVars, codecVars, lockVars>>

\* AudioPlayer::seek, first part: the device is paused and the playback
\* queue swapped out under queueMutex
SeekBegin(t) ==
  /\ ctl = "idle"
  /\ devicePaused' = PauseDevice(TRUE)
  /\ audioQueue' = <<>>
  /\ seekArg' = t /\ seekOk' = FALSE
  /\ ctl' = "seek_dec"
  /\ ret' = "none"
  /\ UNCHANGED <<playerState, isPlaying, isPaused, isDecodingThreadRunning,
                 currentPosition, underrun, bufferedSize, swrContext, deviceOpen,
                 convVars, decVars, inLoad>>
  /\ UNCHANGED <<qVars, outVars, codecVars, lockVars>>

\* AudioDecoder::seek(seconds): discards the queued frames; when it
\* succeeds, the next packet read is the one at the target
DecoderSeek(t, ok) ==
  /\ frameQueue' = <<>>
  /\ streamPos' = IF ok THEN t ELSE streamPos

\* AudioPlayer::seek: the call of decoder->seek
SeekDecoder ==
  /\ ctl = "seek_dec"
  /\ \E ok \in {b \in BOOLEAN : b => opened} :
       /\ DecoderSeek(seekArg, ok)
       /\ seekOk' = ok
  /\ ctl' = "seek_pos"
  /\ ret' = "none"
  /\ UNCHANGED <<playerVars, convVars, opened, isDecoding, dpc, seekArg, inLoad>>
  /\ UNCHANGED <<qVars, outVars, codecVars, lockVars>>

\* a seek() that stores its argument whatever decoder->seek returned
SeekPositionUnchecked(ok, t) == t

\* the position seek() leaves after decoder->seek returned ok
SeekPosition(ok, t) == IF ok THEN t ELSE currentPosition

\* AudioPlayer::seek: if (decoder->seek(seconds)) currentPosition = seconds
SeekSetPos ==
  /\ ctl = "seek_pos"
  /\ currentPosition' = SeekPosition(seekOk, seekArg)
  /\ ctl' = "seek_ret"
  /\ ret' = "none"
  /\ UNCHANGED <<playerState, isPlaying, isPaused, isDecodingThreadRunning,
                 audioQueue, underrun, bufferedSize, swrContext, deviceOpen,
                 devicePaused, convVars, decVars, seekArg, seekOk, inLoad>>
  /\ UNCHANGED <<qVars, outVars, codecVars, lockVars>>

\* AudioPlayer::seek: the device resumes if the player is PLAYING; return
SeekReturn ==
  /\ ctl = "seek_ret"
  /\ devicePaused' = IF playerState = "PLAYING" THEN PauseDevice(FALSE)
                     ELSE devicePaused
  /\ ctl' = "idle"
  /\ ret' = IF seekOk THEN "seek_ok" ELSE "seek_fail"
  /\ seekArg' = IF seekOk THEN seekArg ELSE NoSeek
  /\ seekOk' = FALSE
  /\ UNCHANGED <<playerState, isPlaying, isPaused, isDecodingThreadRunning,
                 audioQueue, currentPosition, underrun, bufferedSize, swrContext,
                 deviceOpen, convVars, decVars, inLoad>>
  /\ UNCHANGED <<qVars, outVars, codecVars, lockVars>>

Seek == \E t \in SeekTargets : SeekBegin(t)

\* ------------------------------------------------- specification
\* a step of a thread is no return of a controller operation
ThreadRet == ret' = "none" /\ UNCHANGED <<qVars, outVars, codecVars, lockVars>>

\* a step of a thread the controller does not own
ThreadStep ==
  /\ \/ DecodeStep
     \/ ConvLoop
     \/ ConvProcess
     \/ ConvEnqueue
     \/ ConvWake
     \/ ConvSpuriousWake
     \/ AudioCallback
  /\ ThreadRet

Next ==
  \/ ThreadStep
  \/ LoadBegin \/ LoadOpen
  \/ Play \/ Pause \/ Resume \/ ResumeSet
  \/ StopBegin \/ StopJoin \/ StopFinish
  \/ Seek \/ SeekDecoder \/ SeekSetPos \/ SeekReturn

Spec == Init /\ [][Next]_vars


\* The scheduler runs every runnable thread, the device keeps calling back
\* while it is not paused, and an operation the controller thread is in goes
\* on when it can.  Nothing forces the user to start an operation, and
\* nothing forces a spurious wakeup.
Fairness ==
  /\ WF_vars(DecodeStep /\ ThreadRet)
  /\ WF_vars(ConvLoop /\ ThreadRet)
  /\ WF_vars(ConvProcess /\ ThreadRet)
  /\ WF_vars(ConvEnqueue /\ ThreadRet)
  /\ WF_vars(ConvWake /\ ThreadRet)
  /\ WF_vars(AudioCallback /\ ThreadRet)
  /\ WF_vars(ResumeSet)
  /\ WF_vars(StopJoin) /\ WF_vars(StopFinish) /\ WF_vars(LoadOpen)
  /\ WF_vars(SeekDecoder) /\ WF_vars(SeekSetPos) /\ WF_vars(SeekReturn)

FairSpec == Init /\ [][Next]_vars /\ Fairness

\* ------------------------------------- the frame queue and its clients
\* AudioDecoder's queue interface, used by client threads on a decoder that
\* was opened and started and whose own thread has ended at the end of the
\* source: pushFrame callers, one getAudioFrame caller, and one call of
\* AudioDecoder::stop.  frameQueueMutex is held within an action, and across
\* actions only by a thread that has evaluated its wait predicate to false
\* and has not yet blocked ("toblock": condition_variable::wait tests the
\* predicate with the mutex held, then releases it and blocks).  stop()
\* writes isDecoding and notifies without taking the mutex.
MutexFree == gpc # "toblock" /\ \A p \in Pushers : ppc[p] # "toblock"

\* the rest of the player, which these clients do not touch
restVars == <<playerVars, convVars, opened, dpc, streamPos, ctlVars, ret,
              outVars, codecVars, lockVars>>

\* a full-queue test that lets one frame too many in
QueueFullOffByOne == Len(frameQueue) > maxQueueSize

\* pushFrame: frameQueue.size() >= config.maxQueueSize
QueueFull == Len(frameQueue) >= maxQueueSize

\* a wait predicate that sees space in a full queue
PushPredOffByOne == Len(frameQueue) <= maxQueueSize \/ ~isDecoding

\* the predicate of queueNotFull.wait in pushFrame
PushPred == Len(frameQueue) < maxQueueSize \/ ~isDecoding

\* a wait that returns at once
GetPredAlways == TRUE

\* the predicate of frameAvailable.wait and wait_for in getAudioFrame
GetPred == frameQueue # <<>> \/ ~isDecoding

\* a front() that reads the newest frame
QueueBack(q) == q[Len(q)]

\* frameQueue.front()
QueueFront(q) == Head(q)

\* pushFrame returns r to pusher p
PushReturn(p, r) ==
  /\ ppc' = [ppc EXCEPT ![p] = "idle"]
  /\ pframe' = [pframe EXCEPT ![p] = NoFrame]
  /\ pres' = [pres EXCEPT ![p] = r]

\* a pushFrame that inserts whether or not the decoder was stopped
PushFinishUnchecked(p, f) ==
  /\ frameQueue' = Append(frameQueue, f)
  /\ pushed' = Append(pushed, f)
  /\ gpc' = IF gpc = "blocked" THEN "woken" ELSE gpc
  /\ PushReturn(p, "true")

\* pushFrame after its wait: a stopped decoder frees the frame and returns
\* false; otherwise the frame is pushed, frameAvailable.notify_one() wakes
\* the getter if it is blocked, and pushFrame returns true
PushFinish(p, f) ==
  IF ~isDecoding
    THEN /\ PushReturn(p, "false")
         /\ UNCHANGED <<frameQueue, pushed, gpc>>
    ELSE /\ frameQueue' = Append(frameQueue, f)
         /\ pushed' = Append(pushed, f)
         /\ gpc' = IF gpc = "blocked" THEN "woken" ELSE gpc
         /\ PushReturn(p, "true")

\* pushFrame(frame) called by pusher p, up to its return or to the point
\* where its wait predicate has been found false
PushCall(p) ==
  /\ ppc[p] = "idle" /\ MutexFree /\ made < MaxFrames
  /\ made' = made + 1
  /\ IF QueueFull
       THEN IF dropFramesWhenFull
              THEN /\ PushReturn(p, "false")
                   /\ pwaited' = [pwaited EXCEPT ![p] = FALSE]
                   /\ UNCHANGED <<frameQueue, pushed, gpc>>
              ELSE IF PushPred
                THEN /\ PushFinish(p, made + 1)
                     /\ pwaited' = [pwaited EXCEPT ![p] = FALSE]
                ELSE /\ ppc' = [ppc EXCEPT ![p] = "toblock"]
                     /\ pframe' = [pframe EXCEPT ![p] = made + 1]
                     /\ pwaited' = [pwaited EXCEPT ![p] = TRUE]
                     /\ UNCHANGED <<pres, frameQueue, pushed, gpc>>
       ELSE /\ PushFinish(p, made + 1)
            /\ pwaited' = [pwaited EXCEPT ![p] = FALSE]
  /\ UNCHANGED <<isDecoding, restVars, dropFramesWhenFull, gtimed, gres, spc,
                 popped>>

\* queueNotFull.wait releases the mutex and blocks pusher p
PushBlock(p) ==
  /\ ppc[p] = "toblock"
  /\ ppc' = [ppc EXCEPT ![p] = "blocked"]
  /\ UNCHANGED <<frameQueue, isDecoding, restVars, dropFramesWhenFull, pframe,
                 pres, pwaited, gpc, gtimed, gres, spc, made, pushed, popped>>

\* pusher p, woken, has the mutex again and tests its predicate
PushWake(p) ==
  /\ ppc[p] = "woken" /\ MutexFree
  /\ IF PushPred
       THEN PushFinish(p, pframe[p])
       ELSE /\ ppc' = [ppc EXCEPT ![p] = "toblock"]
            /\ UNCHANGED <<pframe, pres, frameQueue, pushed, gpc>>
  /\ UNCHANGED <<isDecoding, restVars, dropFramesWhenFull, pwaited, gtimed,
                 gres, spc, made, popped>>

\* a spurious wakeup of pusher p (allowed, never guaranteed)
PushSpuriousWake(p) ==
  /\ ppc[p] = "blocked"
  /\ ppc' = [ppc EXCEPT ![p] = "woken"]
  /\ UNCHANGED <<frameQueue, isDecoding, restVars, dropFramesWhenFull, pframe,
                 pres, pwaited, gpc, gtimed, gres, spc, made, pushed, popped>>

\* getAudioFrame after its wait: false on an empty queue; otherwise the
\* front frame is handed out and popped, queueNotFull.notify_one() wakes one
\* blocked pusher if there is one, and getAudioFrame returns true
GetFinish ==
  /\ gpc' = "idle"
  /\ IF frameQueue = <<>>
       THEN /\ gres' = "false"
            /\ UNCHANGED <<frameQueue, popped, ppc>>
       ELSE /\ gres' = "true"
            /\ popped' = Append(popped, QueueFront(frameQueue))
            /\ frameQueue' = Tail(frameQueue)
            /\ IF \E p \in Pushers : ppc[p] = "blocked"
                 THEN \E p \in Pushers :
                        /\ ppc[p] = "blocked"
                        /\ ppc' = [ppc EXCEPT ![p] = "woken"]
                 ELSE UNCHANGED ppc

\* getAudioFrame(&frame, timeout_ms) called, with timeout_ms >= 0 (timed) or
\* < 0, up to its return or to the point where its wait predicate has been
\* found false
GetCall(timed) ==
  /\ gpc = "idle" /\ MutexFree
  /\ gtimed' = timed
  /\ IF GetPred
       THEN GetFinish
       ELSE /\ gpc' = "toblock"
            /\ UNCHANGED <<gres, frameQueue, popped, ppc>>
  /\ UNCHANGED <<isDecoding, restVars, dropFramesWhenFull, pframe, pres,
                 pwaited, spc, made, pushed>>

\* frameAvailable.wait (or wait_for) releases the mutex and blocks the getter
GetBlock ==
  /\ gpc = "toblock"
  /\ gpc' = "blocked"
  /\ UNCHANGED <<frameQueue, isDecoding, restVars, dropFramesWhenFull, ppc,
                 pframe, pres, pwaited, gtimed, gres, spc, made, pushed, popped>>

\* the getter, woken, has the mutex again and tests its predicate
GetWake ==
  /\ gpc = "woken" /\ MutexFree
  /\ IF GetPred
       THEN GetFinish
       ELSE /\ gpc' = "toblock"
            /\ UNCHANGED <<gres, frameQueue, popped, ppc>>
  /\ UNCHANGED <<isDecoding, restVars, dropFramesWhenFull, pframe, pres,
                 pwaited, gtimed, spc, made, pushed>>

\* the timeout of wait_for expires: it returns the value of the predicate
GetTimeout ==
  /\ gpc = "blocked" /\ gtimed /\ MutexFree
  /\ IF GetPred
       THEN GetFinish
       ELSE /\ gpc' = "idle" /\ gres' = "false"
            /\ UNCHANGED <<frameQueue, popped, ppc>>
  /\ UNCHANGED <<isDecoding, restVars, dropFramesWhenFull, pframe, pres,
                 pwaited, gtimed, spc, made, pushed>>

\* a spurious wakeup of the getter (allowed, never guaranteed)
GetSpuriousWake ==
  /\ gpc = "blocked"
  /\ gpc' = "woken"
  /\ UNCHANGED <<frameQueue, isDecoding, restVars, dropFramesWhenFull, ppc,
                 pframe, pres, pwaited, gtimed, gres, spc, made, pushed, popped>>

\* AudioDecoder::stop: if (isDecoding) isDecoding = false
DStopFlag ==
  /\ spc = "idle" /\ isDecoding
  /\ isDecoding' = FALSE
  /\ spc' = "notify_fa"
  /\ UNCHANGED <<frameQueue, restVars, dropFramesWhenFull, ppc, pframe, pres,
                 pwaited, gpc, gtimed, gres, made, pushed, popped>>

\* AudioDecoder::stop: frameAvailable.notify_all()
DStopNotifyAvailable ==
  /\ spc = "notify_fa"
  /\ gpc' = IF gpc = "blocked" THEN "woken" ELSE gpc
  /\ spc' = "notify_nf"
  /\ UNCHANGED <<frameQueue, isDecoding, restVars, dropFramesWhenFull, ppc,
                 pframe, pres, pwaited, gtimed, gres, made, pushed, popped>>

\* AudioDecoder::stop: queueNotFull.notify_all()
DStopNotifyNotFull ==
  /\ spc = "notify_nf"
  /\ ppc' = [p \in Pushers |-> IF ppc[p] = "blocked" THEN "woken" ELSE ppc[p]]
  /\ spc' = "join"
  /\ UNCHANGED <<frameQueue, isDecoding, restVars, dropFramesWhenFull, pframe,
                 pres, pwaited, gpc, gtimed, gres, made, pushed, popped>>

\* AudioDecoder::stop: decoderThread.join() returns; stop() returns
DStopJoin ==
  /\ spc = "join" /\ dpc \in {"none", "done"}
  /\ dpc' = "none"
  /\ spc' = "done"
  /\ UNCHANGED <<frameQueue, isDecoding, playerVars, convVars, opened,
                 streamPos, ctlVars, ret, dropFramesWhenFull, ppc, pframe,
                 pres, pwaited, gpc, gtimed, gres, made, pushed, popped,
                 outVars, codecVars, lockVars>>

\* the decoder after open() and start(), its thread ended at the end of the
\* source (isDecoding stays true), with either setting of dropFramesWhenFull
QInit ==
  /\ playerState = "STOPPED" /\ isPlaying = FALSE /\ isPaused = FALSE
  /\ isDecodingThreadRunning = FALSE
  /\ audioQueue = <<>> /\ currentPosition = 0 /\ underrun = FALSE
  /\ bufferedSize = 0 /\ swrContext = FALSE
  /\ deviceOpen = FALSE /\ devicePaused = TRUE
  /\ cpc = "none" /\ cframe = NoFrame /\ cbytes = 0 /\ dataNotified = FALSE
  /\ opened = TRUE /\ isDecoding = TRUE /\ dpc = "done"
  /\ frameQueue = <<>> /\ streamPos = StreamLen
  /\ ctl = "idle" /\ seekArg = NoSeek /\ seekOk = FALSE /\ inLoad = FALSE
  /\ ret = "none"
  /\ dropFramesWhenFull \in BOOLEAN
  /\ ppc = [p \in Pushers |-> "idle"] /\ pframe = [p \in Pushers |-> NoFrame]
  /\ pres = [p \in Pushers |-> "none"] /\ pwaited = [p \in Pushers |-> FALSE]
  /\ gpc = "idle" /\ gtimed = FALSE /\ gres = "none"
  /\ spc = "idle"
  /\ made = 0 /\ pushed = <<>> /\ popped = <<>>
  /\ volume = SDL_MIX_MAXVOLUME /\ stream = <<>>
  /\ codecHeld = <<>> /\ queueMutex = "free" /\ cbpc = "idle"

Push == \E p \in Pushers : PushCall(p)
PushBlocks == \E p \in Pushers : PushBlock(p)
PushWakes == \E p \in Pushers : PushWake(p)
PushSpurious == \E p \in Pushers : PushSpuriousWake(p)
Get == \E timed \in BOOLEAN : GetCall(timed)

QNext ==
  \/ Push \/ PushBlocks \/ PushWakes \/ PushSpurious
  \/ Get \/ GetBlock \/ GetWake \/ GetTimeout \/ GetSpuriousWake
  \/ DStopFlag \/ DStopNotifyAvailable \/ DStopNotifyNotFull \/ DStopJoin

QSpec == QInit /\ [][QNext]_vars

\* A thread that has the mutex goes on to block; a woken thread, or one
\* whose timeout has expired, gets the mutex in the end, however often
\* others take it; a stop() that has begun goes on.  Nothing forces a client
\* to call, stop() to be called, or a spurious wakeup.
QFairness ==
  /\ \A p \in Pushers : WF_vars(PushBlock(p)) /\ SF_vars(PushWake(p))
  /\ WF_vars(GetBlock) /\ SF_vars(GetWake) /\ SF_vars(GetTimeout)
  /\ WF_vars(DStopNotifyAvailable) /\ WF_vars(DStopNotifyNotFull)
  /\ WF_vars(DStopJoin)

QFairSpec == QInit /\ [][QNext]_vars /\ QFairness


\* ------------------------------------- the callback and the volume
\* AudioPlayer::setVolume and the bytes fillAudioBuffer writes, on a player
\* that has a file loaded: in any of its states, with any content of the
\* playback queue, with the underrun flag set or not.  The bytes of a chunk
\* are whatever the conversion produced: each byte read is drawn here.

\* the arguments given to setVolume
VolumeArgs == {-1, 0, 1, 127, 128, 129}
\* the values of a byte of converted audio
SampleValues == {0, 1, 255}

\* a clamp without its lower bound
ClampUpperOnly(v, lo, hi) == IF hi < v THEN hi ELSE v

\* std::clamp(v, lo, hi)
Clamp(v, lo, hi) == IF v < lo THEN lo ELSE IF hi < v THEN hi ELSE v

\* AudioPlayer::setVolume
SetVolume(vol) ==
  /\ ctl = "idle"
  /\ volume' = Clamp(vol, 0, SDL_MIX_MAXVOLUME)
  /\ ret' = "volume"
  /\ UNCHANGED <<playerVars, convVars, decVars, ctlVars, qVars, stream,
                 codecVars, lockVars>>

\* a buffer left as the device handed it over
Unfilled(len) == [i \in 1..len |-> 255]

\* SDL_memset(stream, 0, len)
Silence(len) == [i \in 1..len |-> 0]

\* SDL_MixAudioFormat onto the zeroed buffer: the sample scaled by vol/128
MixAudio(src, vol) == (src * vol) \div SDL_MIX_MAXVOLUME

\* the fade-in after an underrun: stream[i] = data[i] * (float(i) / copyLen)
FadeIn(src, i, copyLen) == (src * i) \div copyLen

RECURSIVE Copied(_, _, _, _)
\* fillAudioBuffer's loop: the bytes it writes to the buffer, from offset off
\* (totalCopied) on; data[k] is the queued byte that goes to position k
Copied(q, len, off, data) ==
  IF len = 0 \/ q = <<>> THEN <<>>
  ELSE LET copyLen == Min(len, Head(q).n)
           part == [i \in 1..copyLen |->
                      IF underrun /\ off = 0
                        THEN FadeIn(data[off + i], i - 1, copyLen)
                        ELSE MixAudio(data[off + i], volume)]
       IN part \o (IF copyLen < Head(q).n THEN <<>>
                   ELSE Copied(Tail(q), len - copyLen, off + copyLen, data))

\* the buffer when fillAudioBuffer returns
Output(len, data) ==
  LET written == Copied(audioQueue, len, 0, data)
  IN [i \in 1..len |-> IF i <= Len(written) THEN written[i]
                       ELSE Silence(len)[i]]

\* a callback, with the buffer it leaves
FillStream ==
  \E len \in 1..MaxLen : \E data \in [1..len -> SampleValues] :
    /\ FillAudioBuffer(len)
    /\ stream' = Output(len, data)
    /\ ret' = "none"
    /\ UNCHANGED <<volume, qVars, codecVars, lockVars>>

SetsVolume == \E vol \in VolumeArgs : SetVolume(vol)

\* the playback queues of a player that has converted at most
\* MAX_QUEUE_SIZE frames of the source
CbQueues ==
  UNION {{[i \in 1..k |-> [ts |-> (i - 1) % StreamLen, n |-> f[i]]] :
            f \in [1..k -> 1..MaxChunkBytes]} : k \in 0..MAX_QUEUE_SIZE}

\* a player after loadFile(), in STOPPED, or in PLAYING or PAUSED with the
\* source decoded to its end and the conversion thread at its loop
CbInit ==
  /\ playerState \in States
  /\ isPlaying = (playerState # "STOPPED")
  /\ isPaused = (playerState = "PAUSED")
  /\ isDecodingThreadRunning = (playerState # "STOPPED")
  /\ audioQueue \in IF playerState = "STOPPED" THEN {<<>>} ELSE CbQueues
  /\ currentPosition =
       IF audioQueue = <<>> THEN 0 ELSE audioQueue[Len(audioQueue)].ts
  /\ underrun \in BOOLEAN
  /\ bufferedSize = TotalBytes(audioQueue) % SizeMod
  /\ swrContext = TRUE
  /\ deviceOpen = TRUE /\ devicePaused = (playerState # "PLAYING")
  /\ cpc = IF playerState = "STOPPED" THEN "none" ELSE "loop"
  /\ cframe = NoFrame /\ cbytes = 0 /\ dataNotified = FALSE
  /\ opened = TRUE /\ isDecoding = (playerState # "STOPPED")
  /\ dpc = IF playerState = "STOPPED" THEN "none" ELSE "done"
  /\ frameQueue = <<>>
  /\ streamPos = IF playerState = "STOPPED" THEN 0 ELSE StreamLen
  /\ ctl = "idle" /\ seekArg = NoSeek /\ seekOk = FALSE /\ inLoad = FALSE
  /\ ret = "none"
  /\ dropFramesWhenFull = FALSE
  /\ ppc = [p \in Pushers |-> "idle"] /\ pframe = [p \in Pushers |-> NoFrame]
  /\ pres = [p \in Pushers |-> "none"] /\ pwaited = [p \in Pushers |-> FALSE]
  /\ gpc = "idle" /\ gtimed = FALSE /\ gres = "none"
  /\ spc = "idle"
  /\ made = 0 /\ pushed = <<>> /\ popped = <<>>
  /\ volume = SDL_MIX_MAXVOLUME /\ stream = <<>>
  /\ codecHeld = <<>> /\ queueMutex = "free" /\ cbpc = "idle"

CbNext == FillStream \/ SetsVolume

CbSpec == CbInit /\ [][CbNext]_vars


\* ------------------------------------- the decoder thread and the codec
\* AudioDecoder::decodeLoop with the codec's own buffer: a frame may come
\* out of avcodec_receive_frame some packets after the one it was decoded
\* from (DecodeStep leaves that delay out: there a packet gives its frame at
\* once or never).  The decoder is used on its own: one thread calls
\* getAudioFrame, and stop() may be called.

\* decodeLoop, one iteration.  At the end of the source it sends the flush
\* packet, avcodec_send_packet(ctx, nullptr), and breaks.  Otherwise the
\* packet goes to the codec, and the inner loop receives frames until the
\* codec says EAGAIN: the k oldest frames it holds, each cloned and pushed
\* with frameAvailable.notify_one().
CodecDecode ==
  /\ dpc = "run"
  /\ \/ /\ ~isDecoding                       \* loop test fails
        /\ dpc' = "done"
        /\ UNCHANGED <<frameQueue, streamPos, codecHeld, pushed, gpc>>
     \/ /\ isDecoding /\ streamPos = StreamLen   \* AVERROR_EOF: flush packet, break
        /\ dpc' = "done"
        /\ UNCHANGED <<frameQueue, streamPos, codecHeld, pushed, gpc>>
     \/ /\ isDecoding /\ streamPos < StreamLen
        /\ \/ /\ dpc' = "done"               \* read error: break
              /\ UNCHANGED <<frameQueue, streamPos, codecHeld, pushed, gpc>>
           \/ /\ streamPos' = streamPos + 1  \* avcodec_send_packet fails
              /\ UNCHANGED <<dpc, frameQueue, codecHeld, pushed, gpc>>
           \/ /\ MutexFree                   \* packet sent, k frames received
              /\ LET held == Append(codecHeld, streamPos)
                 IN \E k \in 0..Len(held) :
                      /\ Len(held) - k <= MaxCodecDelay
                      /\ Len(frameQueue) + k <= FrameCap
                      /\ frameQueue' = frameQueue \o SubSeq(held, 1, k)
                      /\ pushed' = pushed \o SubSeq(held, 1, k)
                      /\ codecHeld' = SubSeq(held, k + 1, Len(held))
                      /\ gpc' = IF k > 0 /\ gpc = "blocked" THEN "woken" ELSE gpc
              /\ streamPos' = streamPos + 1
              /\ UNCHANGED dpc
  /\ UNCHANGED <<playerVars, convVars, opened, isDecoding, ctlVars, ret,
                 dropFramesWhenFull, ppc, pframe, pres, pwaited, gtimed, gres,
                 spc, made, popped, outVars, lockVars>>

\* the decoder after open() and start(): its thread is about to read the
\* first packet
DInit ==
  /\ playerState = "STOPPED" /\ isPlaying = FALSE /\ isPaused = FALSE
  /\ isDecodingThreadRunning = FALSE
  /\ audioQueue = <<>> /\ currentPosition = 0 /\ underrun = FALSE
  /\ bufferedSize = 0 /\ swrContext = FALSE
  /\ deviceOpen = FALSE /\ devicePaused = TRUE
  /\ cpc = "none" /\ cframe = NoFrame /\ cbytes = 0 /\ dataNotified = FALSE
  /\ opened = TRUE /\ isDecoding = TRUE /\ dpc = "run"
  /\ frameQueue = <<>> /\ streamPos = 0
  /\ ctl = "idle" /\ seekArg = NoSeek /\ seekOk = FALSE /\ inLoad = FALSE
  /\ ret = "none"
  /\ dropFramesWhenFull = FALSE
  /\ ppc = [p \in Pushers |-> "idle"] /\ pframe = [p \in Pushers |-> NoFrame]
  /\ pres = [p \in Pushers |-> "none"] /\ pwaited = [p \in Pushers |-> FALSE]
  /\ gpc = "idle" /\ gtimed = FALSE /\ gres = "none"
  /\ spc = "idle"
  /\ made = 0 /\ pushed = <<>> /\ popped = <<>>
  /\ volume = SDL_MIX_MAXVOLUME /\ stream = <<>>
  /\ codecHeld = <<>> /\ queueMutex = "free" /\ cbpc = "idle"

DNext ==
  \/ CodecDecode
  \/ Get \/ GetBlock \/ GetWake \/ GetTimeout \/ GetSpuriousWake
  \/ DStopFlag \/ DStopNotifyAvailable \/ DStopNotifyNotFull \/ DStopJoin

DSpec == DInit /\ [][DNext]_vars


\* ------------------------------------- queueMutex and the callback
\* The playback queue with its mutex made explicit: who holds queueMutex,
\* and where the device's thread is inside fillAudioBuffer.  The player is
\* PLAYING after a seek(0): the source is about to be read again from its
\* start and the playback queue holds what the conversion thread has pushed
\* since.  The user may pause, resume and stop.  SDL_PauseAudioDevice takes
\* the device's lock, which the device's thread holds while it runs the
\* callback: a call that pauses the device waits until no callback runs.

\* a wait that blocks with the mutex still held
WaitKeepsMutex == "conv"

\* dataCondition.wait(lock, pred): the owner of queueMutex once the
\* conversion thread has blocked
WaitRelease == "free"

\* a step of one of the threads here is no return of a controller operation
MRet == ret' = "none" /\ UNCHANGED <<qVars, outVars, codecVars>>

\* processDecodedFrame: std::unique_lock<std::mutex> lock(queueMutex)
MConvLock ==
  /\ cpc = "enq" /\ queueMutex = "free"
  /\ queueMutex' = "conv"
  /\ UNCHANGED <<playerVars, convVars, decVars, ctlVars, cbpc>>
  /\ MRet

\* processDecodedFrame with the lock: the push and the return, which
\* unlocks; or the wait, which unlocks and blocks
MConvEnqueue ==
  /\ queueMutex = "conv"
  /\ ConvEnqueue
  /\ queueMutex' = IF cpc' = "wait" THEN WaitRelease ELSE "free"
  /\ UNCHANGED cbpc
  /\ MRet

\* the notified conversion thread takes the mutex again, tests its
\* predicate, and pushes and returns or blocks again
MConvWake ==
  /\ queueMutex = "free"
  /\ ConvWake
  /\ UNCHANGED lockVars
  /\ MRet

\* the same after a spurious wakeup
MConvSpuriousWake ==
  /\ queueMutex = "free"
  /\ ConvSpuriousWake
  /\ UNCHANGED lockVars
  /\ MRet

\* the device invokes audioCallback: fillAudioBuffer zero-fills the buffer
\* and goes for the lock
MCbEnter ==
  /\ cbpc = "idle"
  /\ deviceOpen /\ ~devicePaused
  /\ cbpc' = "lock"
  /\ UNCHANGED <<playerVars, convVars, decVars, ctlVars, queueMutex>>
  /\ MRet

\* fillAudioBuffer: std::unique_lock<std::mutex> lock(queueMutex)
MCbLock ==
  /\ cbpc = "lock" /\ queueMutex = "free"
  /\ queueMutex' = "cb" /\ cbpc' = "fill"
  /\ UNCHANGED <<playerVars, convVars, decVars, ctlVars>>
  /\ MRet

\* fillAudioBuffer with the lock, up to its return
MCbFill ==
  /\ cbpc = "fill"
  /\ AudioCallback
  /\ queueMutex' = "free" /\ cbpc' = "idle"
  /\ MRet

\* pause(): SDL_PauseAudioDevice waits for a running callback
MPause == cbpc = "idle" /\ Pause

\* stop(): SDL_PauseAudioDevice waits for a running callback
MStopJoin == cbpc = "idle" /\ StopJoin

\* stop(): std::lock_guard<std::mutex> lock(queueMutex) around the swap
MStopFinish == queueMutex = "free" /\ StopFinish

\* a loaded player in PLAYING, the device playing, both threads running,
\* the source at its start and chunks in the playback queue
MInit ==
  /\ playerState = "PLAYING" /\ isPlaying = TRUE /\ isPaused = FALSE
  /\ isDecodingThreadRunning = TRUE
  /\ audioQueue \in CbQueues
  /\ currentPosition = 0 /\ underrun = FALSE
  /\ bufferedSize = TotalBytes(audioQueue) % SizeMod
  /\ swrContext = TRUE
  /\ deviceOpen = TRUE /\ devicePaused = FALSE
  /\ cpc = "loop" /\ cframe = NoFrame /\ cbytes = 0 /\ dataNotified = FALSE
  /\ opened = TRUE /\ isDecoding = TRUE /\ dpc = "run"
  /\ frameQueue = <<>> /\ streamPos = 0
  /\ ctl = "idle" /\ seekArg = NoSeek /\ seekOk = FALSE /\ inLoad = FALSE
  /\ ret = "none"
  /\ dropFramesWhenFull = FALSE
  /\ ppc = [p \in Pushers |-> "idle"] /\ pframe = [p \in Pushers |-> NoFrame]
  /\ pres = [p \in Pushers |-> "none"] /\ pwaited = [p \in Pushers |-> FALSE]
  /\ gpc = "idle" /\ gtimed = FALSE /\ gres = "none"
  /\ spc = "idle"
  /\ made = 0 /\ pushed = <<>> /\ popped = <<>>
  /\ volume = SDL_MIX_MAXVOLUME /\ stream = <<>>
  /\ codecHeld = <<>> /\ queueMutex = "free" /\ cbpc = "idle"

\* the decoder thread and the conversion thread outside the lock
MThreadStep ==
  /\ \/ DecodeStep
     \/ ConvLoop
     \/ ConvProcess
  /\ ThreadRet

MNext ==
  \/ MThreadStep
  \/ MConvLock \/ MConvEnqueue \/ MConvWake \/ MConvSpuriousWake
  \/ MCbEnter \/ MCbLock \/ MCbFill
  \/ MPause \/ Resume \/ ResumeSet
  \/ StopBegin \/ MStopJoin \/ MStopFinish

MSpec == MInit /\ [][MNext]_vars

\* A thread that holds queueMutex goes on to release it; the callback gets
\* the mutex in the end, however often the conversion thread takes it, and
\* runs to its return.
MFairness ==
  /\ WF_vars(MConvEnqueue)
  /\ SF_vars(MCbLock)
  /\ WF_vars(MCbFill)

MFairSpec == MInit /\ [][MNext]_vars /\ MFairness


\* ------------------------------------------------------- claims
\* stop() has set isDecodingThreadRunning and has not returned
StopPending == ctl \in {"stop_join", "stop_djoin"}

\* C1: a stop() that has begun in PLAYING or PAUSED, on a player whose
\* device is open, eventually returns, whatever the conversion thread is
\* doing, with the device paused or not.
C1_StopReturns == (StopPending /\ deviceOpen) ~> ~StopPending

\* the conversion thread is blocked in dataCondition.wait
ConvBlocked == cpc = "wait"

\* C2: a conversion thread blocked on the full playback queue gets out of
\* its wait once the queue is below LOW_WATER_MARK, whether a callback or
\* seek()'s flush brought it there, unless the player leaves PLAYING or the
\* controller starts another operation (the device is open: callbacks fire
\* whenever it is not paused).
C2_BlockedProducerResumes ==
  (ConvBlocked /\ Len(audioQueue) < LOW_WATER_MARK /\ playerState = "PLAYING"
     /\ deviceOpen /\ ctl = "idle")
    ~> (~ConvBlocked \/ playerState # "PLAYING" \/ ctl # "idle")


\* C3: the frame queue never holds more than config.maxQueueSize frames.
C3_FrameQueueBounded == Len(frameQueue) <= maxQueueSize

\* C4: the playback queue never holds more than MAX_QUEUE_SIZE chunks.
C4_PlaybackQueueBounded == Len(audioQueue) <= MAX_QUEUE_SIZE

\* the playback queue is full and the conversion thread waits with a chunk
W4_FullAndBlocked == Len(audioQueue) = MAX_QUEUE_SIZE /\ ConvBlocked

\* C5: when stop() returns, the frame queue and the playback queue are empty.
C5_StopEmptiesQueues == ret = "stop" => (frameQueue = <<>> /\ audioQueue = <<>>)

\* C6: when stop() returns, from any state, the player is STOPPED, neither
\* thread is alive, the device is paused and currentPosition is 0.
C6_StopPostcondition ==
  ret = "stop" => /\ playerState = "STOPPED"
                  /\ cpc \in {"none", "done"} /\ dpc \in {"none", "done"}
                  /\ devicePaused
                  /\ currentPosition = 0

C8_SeekPostcondition ==
  (ret = "seek_ok" /\ playerState \in {"PLAYING", "PAUSED"})
    => /\ \A i \in 1..Len(frameQueue) : frameQueue[i] >= seekArg
       /\ \A i \in 1..Len(audioQueue) : audioQueue[i].ts >= seekArg
       /\ currentPosition = seekArg

\* C9: once a successful seek(t) has returned (and until the next controller
\* operation), every chunk put on the playback queue has a timestamp >= t.
C9_NoStaleChunkAfterSeek ==
  [][(ctl = "idle" /\ seekArg # NoSeek /\ Len(audioQueue') > Len(audioQueue))
       => audioQueue'[Len(audioQueue')].ts >= seekArg]_vars

\* a step of seek() (not of another thread) while decoder->seek has not
\* reported success
FailedSeekStep ==
  /\ ctl' # ctl
  /\ ctl' \in {"seek_dec", "seek_pos", "seek_ret"} \/ ctl = "seek_ret"
  /\ ~seekOk /\ ~seekOk'

C11_PositionMonotonic ==
  [][(playerState = "PLAYING" /\ playerState' = "PLAYING" /\ ~SeekSetPos)
       => currentPosition' >= currentPosition]_vars

\* the decoder thread, resp. the conversion thread, is alive
DecoderAlive == dpc = "run"
ConvAlive == cpc \in {"loop", "conv", "enq", "wait"}

\* C12: whenever the player of a loaded source is PLAYING or PAUSED and no
\* controller operation is in progress, the decoder thread and the
\* conversion thread are both alive, also once the source has been read to
\* its end.
C12_ThreadsAliveWhilePlaying ==
  (playerState \in {"PLAYING", "PAUSED"} /\ ctl = "idle" /\ opened
     /\ streamPos = StreamLen)
    => (DecoderAlive /\ ConvAlive)

\* q2 is what is left of q once bytes have been taken from its front: some
\* leading chunks are gone, the first one left may have lost its first bytes
IsFrontRemainder(q2, q) ==
  \E k \in 0..Len(q) :
    /\ Len(q2) = Len(q) - k
    /\ \A i \in 2..Len(q2) : q2[i] = q[k + i]
    /\ q2 # <<>> => (q2[1].ts = q[k + 1].ts /\ q2[1].n <= q[k + 1].n)

\* C15: frames keep their decoding order all the way to the device.  The
\* frame queue gains a frame only at its tail and loses one only at its
\* head, to the conversion thread, which holds one frame at a time and puts
\* its chunk at the tail of the playback queue; the callback takes its bytes
\* from the front of the playback queue; every other change of a queue is a
\* flush.
C15_PlayedInDecodeOrder ==
  [][/\ \/ frameQueue' = frameQueue
        \/ frameQueue' = <<>>
        \/ /\ Len(frameQueue') = Len(frameQueue) + 1
           /\ SubSeq(frameQueue', 1, Len(frameQueue)) = frameQueue
        \/ /\ frameQueue # <<>> /\ frameQueue' = Tail(frameQueue)
           /\ cpc = "loop" /\ cframe' = Head(frameQueue)
     /\ (cpc = "loop" /\ cpc' = "conv")
          => (frameQueue # <<>> /\ cframe' = Head(frameQueue)
                /\ frameQueue' = Tail(frameQueue))
     /\ \/ audioQueue' = <<>>
        \/ /\ Len(audioQueue') = Len(audioQueue) + 1
           /\ SubSeq(audioQueue', 1, Len(audioQueue)) = audioQueue
           /\ audioQueue'[Len(audioQueue')].ts = cframe
           /\ cframe # NoFrame /\ cframe' = NoFrame
        \/ IsFrontRemainder(audioQueue', audioQueue)]_vars

\* the device plays (no seek has been made): the chunk of frame 0 has been
\* played, the chunk of frame 1 is at the front of the playback queue
W15_SecondChunkAtFront ==
  /\ playerState = "PLAYING" /\ ~devicePaused /\ seekArg = NoSeek
  /\ audioQueue # <<>> /\ audioQueue[1].ts = 1
  /\ currentPosition = 1

\* what resume() does to a PAUSED player: first it unmutes the device ...
ResumeEffect ==
  /\ devicePaused' = PauseDevice(FALSE)
  /\ ctl' \in {"resume_set", "play_set"}
  /\ UNCHANGED <<playerState, isPaused, isPlaying, isDecodingThreadRunning,
                 audioQueue, currentPosition, underrun, bufferedSize, swrContext,
                 deviceOpen, convVars, decVars>>

\* ... then it stores the state and returns
ResumeSetEffect ==
  /\ playerState' = "PLAYING" /\ isPaused' = FALSE /\ ctl' = "idle"
  /\ UNCHANGED <<isPlaying, isDecodingThreadRunning, audioQueue, currentPosition,
                 underrun, bufferedSize, swrContext, deviceOpen, devicePaused,
                 convVars, decVars>>

\* C20: play() in STOPPED moves to PLAYING, starts the decoder thread and
\* the conversion thread (neither was alive) and unmutes the device (if one
\* is open); play() in PAUSED does what resume() does in PAUSED, in the same
\* two steps; play() in PLAYING changes nothing and starts no thread.
C20_PlayEffect ==
  [][/\ (Play /\ playerState = "STOPPED")
          => /\ playerState' = "PLAYING"
             /\ ~DecoderAlive /\ DecoderAlive'
             /\ ~ConvAlive /\ ConvAlive'
             /\ deviceOpen => ~devicePaused'
     /\ ((Play \/ Resume) /\ playerState = "PAUSED") => ResumeEffect
     /\ ResumeSet => ResumeSetEffect
     /\ (Play /\ playerState = "PLAYING") => UNCHANGED progVars]_vars

\* play() has returned on a player that plays with both threads alive
W20_PlayStarted ==
  /\ ret = "play" /\ playerState = "PLAYING" /\ deviceOpen /\ ~devicePaused
  /\ DecoderAlive /\ ConvAlive

\* a client of the frame queue is inside pushFrame, resp. getAudioFrame
PushWaiting(p) == ppc[p] # "idle"
GetWaiting == gpc # "idle"

\* C13: once AudioDecoder::stop() has written isDecoding, every thread that
\* waits in pushFrame or in getAudioFrame (with or without a timeout)
\* eventually returns, wherever the waiter was between its predicate check
\* and its block when stop() wrote the flag and notified.
C13_StopWakesWaiters ==
  (spc # "idle") ~> (~GetWaiting /\ \A p \in Pushers : ~PushWaiting(p))

\* C14: the frames getAudioFrame has handed out, followed by the frames
\* still queued, are the frames pushFrame inserted, in the order of their
\* insertion: each comes out once, in its turn.
C14_FrameQueueFIFO == popped \o frameQueue = pushed

\* two frames have been handed out while two later ones wait in the queue
W14_TwoOutTwoQueued == Len(popped) = 2 /\ Len(frameQueue) = 2

\* C16: with dropFramesWhenFull set, a pushFrame called on a queue that
\* holds maxQueueSize frames returns false in that step, without waiting,
\* and leaves the queue as it was.
C16_DropWhenFull ==
  [][\A p \in Pushers :
       (PushCall(p) /\ dropFramesWhenFull /\ Len(frameQueue) = maxQueueSize)
         => (frameQueue' = frameQueue /\ pres'[p] = "false" /\ ppc'[p] = "idle")]_vars

\* a pushFrame has been refused on a full queue of a running decoder
W16_FrameDropped ==
  /\ dropFramesWhenFull /\ isDecoding /\ Len(frameQueue) = maxQueueSize
  /\ \E p \in Pushers : pres[p] = "false" /\ ppc[p] = "idle"

\* the pushers blocked in queueNotFull.wait
BlockedPushers == {p \in Pushers : ppc[p] = "blocked"}

\* C17: with dropFramesWhenFull clear the queue never exceeds maxQueueSize;
\* a getAudioFrame that takes a frame off the full queue while several
\* pushers are blocked wakes exactly one of them and leaves the others
\* blocked; a woken pusher that finds space on a running decoder inserts its
\* frame, one that finds the queue full again goes back to waiting.
C17_PopUnblocksOnePusher ==
  [][~dropFramesWhenFull =>
       /\ Len(frameQueue') <= maxQueueSize
       /\ (Len(frameQueue) = maxQueueSize /\ Len(frameQueue') < Len(frameQueue)
             /\ Cardinality(BlockedPushers) >= 2)
            => /\ Cardinality({p \in BlockedPushers : ppc'[p] = "woken"}) = 1
               /\ Cardinality({p \in BlockedPushers : ppc'[p] = "blocked"})
                    = Cardinality(BlockedPushers) - 1
       /\ \A p \in Pushers :
            (ppc[p] = "woken" /\ ppc'[p] # "woken" /\ isDecoding)
              => IF Len(frameQueue) < maxQueueSize
                   THEN /\ frameQueue' = Append(frameQueue, pframe[p])
                        /\ pres'[p] = "true" /\ ppc'[p] = "idle"
                   ELSE /\ frameQueue' = frameQueue
                        /\ ppc'[p] = "toblock"]_vars

\* pusher q waited on the full queue and has inserted its frame, which it
\* offered after pusher p offered the frame it is still blocked with
W17_OneThroughOneBlocked ==
  /\ ~dropFramesWhenFull /\ isDecoding /\ Len(frameQueue) = maxQueueSize
  /\ popped # <<>>
  /\ \E p, q \in Pushers :
       /\ ppc[p] = "blocked" /\ ppc[q] = "idle"
       /\ pres[q] = "true" /\ pwaited[q]
       /\ pframe[p] < pushed[Len(pushed)]

\* C18: a pushFrame that waited on the full queue and wakes up on a stopped
\* decoder returns false and leaves the queue as it was.
C18_BlockedPushFailsOnStop ==
  [][\A p \in Pushers :
       (ppc[p] = "woken" /\ ppc'[p] # "woken" /\ ~isDecoding)
         => (pres'[p] = "false" /\ ppc'[p] = "idle" /\ frameQueue' = frameQueue
               /\ pushed' = pushed)]_vars

\* stop() has been called and a pusher that waited on the full queue has
\* returned false, the queue still full
W18_BlockedPushReturnedFalse ==
  /\ spc # "idle" /\ ~dropFramesWhenFull /\ Len(frameQueue) = maxQueueSize
  /\ \E p \in Pushers : ppc[p] = "idle" /\ pwaited[p] /\ pres[p] = "false"

\* getAudioFrame returns in this step
GetReturns == gpc' = "idle" /\ (Get \/ GetWake \/ GetTimeout)

\* C19: a getAudioFrame with a timeout >= 0 whose timeout expires with no
\* frame queued (on a running decoder) returns false and leaves the queue as
\* it was; a getAudioFrame with a timeout < 0 returns only with the front
\* frame (true), or with false on a stopped decoder whose queue is empty.
C19_GetAudioFrameResult ==
  [][/\ (GetTimeout /\ frameQueue = <<>>)
          => (gres' = "false" /\ gpc' = "idle" /\ frameQueue' = frameQueue)
     /\ (GetReturns /\ ~gtimed')
          => \/ /\ gres' = "true" /\ frameQueue # <<>>
                /\ popped' = Append(popped, Head(frameQueue))
                /\ frameQueue' = Tail(frameQueue)
             \/ /\ gres' = "false" /\ ~isDecoding
                /\ frameQueue = <<>> /\ frameQueue' = <<>>]_vars

\* a timed getAudioFrame has come back empty-handed from a running decoder,
\* and before it an untimed one had handed out a frame
W19_TimedOutEmpty ==
  /\ gpc = "idle" /\ gtimed /\ gres = "false" /\ isDecoding
  /\ frameQueue = <<>> /\ popped # <<>>

\* C21: pause() in PLAYING sets playerState to PAUSED and mutes the device,
\* while both producer threads stay where they are and the two queues and
\* currentPosition keep their values; pause() in STOPPED or PAUSED changes
\* nothing.
C21_PauseEffect ==
  [][ret' = "pause" =>
       IF playerState = "PLAYING"
         THEN /\ playerState' = "PAUSED"
              /\ devicePaused'
              /\ UNCHANGED <<cpc, dpc, isDecodingThreadRunning, isDecoding>>
              /\ UNCHANGED <<audioQueue, frameQueue, currentPosition>>
         ELSE UNCHANGED progVars]_vars

\* pause() has returned on a playing device: PAUSED, muted, both threads
\* alive, data queued
W21_PausedWithThreads ==
  /\ ret = "pause" /\ playerState = "PAUSED"
  /\ deviceOpen /\ devicePaused
  /\ DecoderAlive /\ ConvAlive
  /\ audioQueue # <<>>

\* C22: a callback that runs while the player is paused leaves the playback
\* queue, the buffered-size counter and the underrun flag as they were (and
\* writes nothing but zeros).
C22_PausedCallbackSilent ==
  [][(AudioCallback /\ ret' = "none" /\ (isPaused \/ playerState = "PAUSED"))
       => UNCHANGED <<audioQueue, bufferedSize, underrun>>]_vars

\* C23: after setVolume(v), in any player state, the volume is v clamped to
\* [0, 128]; it always lies in that range; setVolume changes nothing else,
\* and nothing but setVolume changes the volume.
C23_VolumeClamped ==
  [][/\ volume' \in 0..128
     /\ \A vol \in VolumeArgs :
          SetVolume(vol) =>
            /\ volume' = (IF vol < 0 THEN 0 ELSE IF vol > 128 THEN 128 ELSE vol)
            /\ UNCHANGED progVars
     /\ ret' # "volume" => volume' = volume]_vars

\* setVolume has returned with an argument below the range clamped to 0, on
\* a paused player
W23_ClampedToZero ==
  ret = "volume" /\ volume = 0 /\ playerState = "PAUSED"

\* C24: with volume 0, a callback over a non-empty playback queue leaves
\* every byte of the output buffer zero, whether the underrun flag is set or
\* not, and removes min(len, queued bytes) bytes from the queue.
C24_MutedOutputIsSilent ==
  [][\A len \in 1..MaxLen :
       (/\ FillAudioBuffer(len) /\ ret' = "none" /\ Len(stream') = len
        /\ volume = 0 /\ audioQueue # <<>>)
       => /\ \A i \in 1..len : stream'[i] = 0
          /\ TotalBytes(audioQueue') =
               TotalBytes(audioQueue) - Min(len, TotalBytes(audioQueue))]_vars

\* C25: after a callback the underrun flag is true exactly when the callback
\* found the playback queue empty; a callback that found it empty leaves
\* only zeros in the output buffer.
C25_UnderrunFlag ==
  [][\A len \in 1..MaxLen :
       (FillAudioBuffer(len) /\ ret' = "none" /\ Len(stream') = len)
       => /\ underrun' = (audioQueue = <<>>)
          /\ audioQueue = <<>> => \A i \in 1..len : stream'[i] = 0]_vars

\* a callback has found the queue empty after an earlier one delivered data:
\* the flag is set and the buffer is silent
W25_UnderrunAfterData ==
  /\ underrun /\ audioQueue = <<>> /\ bufferedSize = 0
  /\ stream # <<>> /\ \A i \in 1..Len(stream) : stream[i] = 0
  /\ playerState = "PLAYING" /\ ret = "none"

\* C26: loadFile() stops playback before it opens anything, and when the
\* open of the source, of the device or of the resampler fails it returns
\* false with playerState STOPPED and neither the decoder thread nor the
\* conversion thread alive.
C26_LoadFailureStopped ==
  (ctl = "load_open" \/ ret = "load_fail")
    => (playerState = "STOPPED" /\ ~DecoderAlive /\ ~ConvAlive)

\* loadFile() has returned false because the source did not open, on a
\* player that still holds frames of the playback it stopped
W26_LoadFailedAfterPlayback ==
  /\ ret = "load_fail" /\ ~opened
  /\ playerState = "STOPPED" /\ frameQueue # <<>>

\* the source is open and every packet of it has been read
AtEof == opened /\ streamPos = StreamLen

\* C27: at the end of the source the decoder thread leaves its loop and
\* terminates, and a stop() of the player on a source that has reached its
\* end returns.
C27_EofThenStopReturns ==
  /\ (dpc = "run" /\ AtEof) ~> (dpc # "run" \/ ~AtEof)
  /\ (StopPending /\ deviceOpen /\ AtEof) ~> ~StopPending

\* C28: with the decoder thread ended at the end of the source and the
\* frame queue empty, a getAudioFrame call returns, with a timeout or with
\* the indefinite wait, without any call of stop() (which the consumer's
\* loop makes only after getAudioFrame has returned false).
C28_GetReturnsAtEof ==
  (GetWaiting /\ frameQueue = <<>> /\ dpc = "done" /\ spc = "idle")
    ~> (~GetWaiting \/ spc # "idle")

\* C29: a frame whose conversion fails is dropped with nothing enqueued for
\* it, and the conversion thread is back at its loop, ready for the next
\* frame.
C29_BadFrameSkipped ==
  [][(cpc = "conv" /\ cpc' \notin {"conv", "enq"})
       => /\ cpc' = "loop" /\ cframe' = NoFrame
          /\ UNCHANGED <<audioQueue, bufferedSize, isDecodingThreadRunning>>]_vars

\* the conversion thread is back at its loop without the frame it took, with
\* no resampler to convert with, nothing enqueued, and the next frame queued
W29_SkippedNextQueued ==
  /\ cpc = "loop" /\ cframe = NoFrame /\ ~swrContext
  /\ playerState = "PLAYING" /\ isDecodingThreadRunning
  /\ frameQueue = <<1>> /\ streamPos = StreamLen
  /\ audioQueue = <<>> /\ bufferedSize = 0

\* C30: the decoder thread leaves its loop only when the decoder has been
\* stopped or the source has nothing more to read; a failed read or decode
\* in mid-stream does not end it.
C30_DecodeLoopSurvivesErrors ==
  [][(dpc = "run" /\ dpc' = "done")
       => (~isDecoding \/ ~opened \/ streamPos = StreamLen)]_vars

\* C32: whenever no controller operation is in progress, the output device
\* is unmuted exactly when playerState is PLAYING.
C32_UnmutedIffPlaying ==
  ctl = "idle" => ((deviceOpen /\ ~devicePaused) <=> playerState = "PLAYING")

\* C35: bufferedSize equals the number of bytes held in the playback queue
\* (in size_t arithmetic) in every state: queueMutex is held only within a
\* step.
C35_BufferedSizeExact == bufferedSize = TotalBytes(audioQueue) % SizeMod

\* C36: a play() on a player without an opened source or without an opened
\* device leaves playerState STOPPED and starts no thread.
C36_PlayWithoutFile ==
  [][(ret' = "play" /\ (~opened \/ ~deviceOpen))
       => (playerState' = "STOPPED" /\ ~DecoderAlive' /\ ~ConvAlive')]_vars

\* C37: whenever playerState is PLAYING or PAUSED the resampler context is
\* in place.
C37_ResamplerWhilePlaying ==
  playerState \in {"PLAYING", "PAUSED"} => swrContext

\* C38: when loadFile() returns true the frame queue is empty: it holds no
\* frame decoded before the load.
C38_NoFrameOfOldFile == ret = "load_ok" => frameQueue = <<>>

\* C39: with no controller operation in progress and playerState STOPPED,
\* currentPosition is 0.
C39_StoppedPositionZero ==
  (ctl = "idle" /\ playerState = "STOPPED") => currentPosition = 0

RECURSIVE QueuedBytes(_)
\* the bytes of a queue in the order they are played; a byte is named by its
\* chunk's timestamp and its distance from the end of the chunk
QueuedBytes(q) ==
  IF q = <<>> THEN <<>>
  ELSE [i \in 1..Head(q).n |-> <<Head(q).ts, Head(q).n - i + 1>>]
         \o QueuedBytes(Tail(q))

\* C34: a callback asked for len bytes over a non-empty playback queue takes
\* exactly the first min(len, queued bytes) bytes: what stays queued is the
\* rest, in order, with no byte lost or kept twice, a chunk read in part
\* keeps its tail at the front, and no emptied chunk stays in the queue.
C34_CallbackTakesExactPrefix ==
  [][\A len \in 1..MaxLen :
       (/\ FillAudioBuffer(len) /\ ret' = "none" /\ Len(stream') = len
        /\ audioQueue # <<>>)
       => LET all == QueuedBytes(audioQueue)
              m == Min(len, Len(all))
          IN /\ QueuedBytes(audioQueue') = SubSeq(all, m + 1, Len(all))
             /\ \A i \in 1..Len(audioQueue') : audioQueue'[i].n >= 1
             /\ Len(all) = TotalBytes(audioQueue)]_vars

\* a callback has read the front chunk in part: the queue still has all its
\* chunks, the first of them shortened
W34_FrontChunkReadInPart ==
  /\ stream # <<>> /\ ret = "none"
  /\ Len(audioQueue) = MAX_QUEUE_SIZE
  /\ audioQueue[1].ts = 0 /\ audioQueue[1].n < MaxChunkBytes
  /\ bufferedSize = TotalBytes(audioQueue) % SizeMod

\* C33: when the decoder thread leaves its loop at the end of the source,
\* every frame the codec still holds has been put on the frame queue: none
\* is left in the codec.
C33_CodecDrainedAtEof ==
  [][(dpc = "run" /\ dpc' = "done" /\ isDecoding /\ streamPos = StreamLen)
       => (codecHeld' = <<>> /\ frameQueue' = frameQueue \o codecHeld)]_vars

\* C31: the conversion thread never holds queueMutex while it is blocked in
\* its wait, the callback is never anywhere but before the lock or inside
\* its locked section, and every callback that has been invoked returns.
C31_CallbackCompletes ==
  /\ [](cpc = "wait" => queueMutex # "conv")
  /\ [](cbpc \in {"idle", "lock", "fill"})
  /\ (cbpc # "idle") ~> (cbpc = "idle")

\* a callback runs its locked section while the conversion thread is
\* blocked on the full playback queue
W31_CallbackRunsWhileConvBlocked ==
  /\ cbpc = "fill" /\ queueMutex = "cb"
  /\ cpc = "wait" /\ Len(audioQueue) = MAX_QUEUE_SIZE

=============================================================================
